---- MODULE Spec2Model ----
(***************************************************************************)
(* Model of JLC2KiCadLib/symbol/symbol.py: create_symbol (the multi-unit   *)
(* assembler), get_type_values_properties (the property block synthesizer) *)
(* and update_library (the library merge engine).                          *)
(*                                                                         *)
(* Text is modelled as TLA+ strings, character for character: the library  *)
(* file content, the rendered record, the regular expression's subject.    *)
(* All inputs are ASCII, so decode()/encode() are the identity on them,    *)
(* and no input contains a backslash, so re.sub's replacement template     *)
(* expands to itself.  Titles are built from letters, digits, space, '.',  *)
(* '/' and '+'; of these only '+' is a regular-expression operator after   *)
(* sanitization, and the matcher below implements it: greedy, possessive   *)
(* ('++') and the error of a longer run, on the title's characters and on  *)
(* the quote that precedes the title.                                      *)
(***************************************************************************)
EXTENDS Integers, Sequences, FiniteSets, TLC

VARIABLES
    files,                  \* the file system: file name -> content
    dirs,                   \* the directories that exist
    pc,                     \* position of create_symbol: idle, fetch, render
    symbol_component_uuid,  \* argument: the list of sub-part identifiers
    skip_existing,          \* argument
    jlcparts_db,            \* argument: path of the enrichment database
    library_name,           \* argument, reassigned at line 179
    datasheet_link,         \* argument, reassigned at line 168
    idx,                    \* position of the for loop of line 114
    ComponentName,          \* local of create_symbol
    drawing,                \* kicad_symbol.drawing
    component_types_values, \* local of create_symbol
    symmbol_prefix,         \* local of create_symbol
    value,                  \* local of create_symbol
    filename,               \* local of create_symbol, "" while unbound
    result,                 \* what the last create_symbol call returned
    fetched,                \* identifiers requested by the current call
    status,                 \* status code of the last response
    last,                   \* arguments and input of the last update_library
    calls,                  \* number of create_symbol calls so far
    gtvp                    \* last get_type_values_properties call and result

vars == <<files, dirs, pc, symbol_component_uuid, skip_existing, jlcparts_db,
          library_name, datasheet_link, idx, ComponentName, drawing,
          component_types_values, symmbol_prefix, value, filename, result,
          fetched, status, last, calls, gtvp>>

\* ------------------------------------------------------------------ bounds
MaxCalls == 3
MaxCallsAsm == 2
MaxPairs == 3

\* ------------------------------------------------------- string primitives
Min(S) == CHOOSE x \in S : \A y \in S : x <= y
Max(S) == CHOOSE x \in S : \A y \in S : x >= y

\* s[i .. i+len(sub)-1] == sub
StartsAt(s, i, sub) ==
    /\ i >= 1
    /\ i + Len(sub) - 1 <= Len(s)
    /\ SubSeq(s, i, i + Len(sub) - 1) = sub

Positions(s, sub, from) ==
    {i \in from .. (Len(s) - Len(sub) + 1) : StartsAt(s, i, sub)}

\* str.find(sub, from), 1-based, 0 when absent
Find(s, sub, from) ==
    LET P == Positions(s, sub, from) IN IF P = {} THEN 0 ELSE Min(P)

\* sub in s
Contains(s, sub) == Find(s, sub, 1) # 0

\* str.find(sub) in the place of str.rfind(sub)
FindFirst(s, sub) == Find(s, sub, 1)

\* str.rfind(sub), 1-based, 0 when absent
RFind(s, sub) ==
    LET P == Positions(s, sub, 1) IN IF P = {} THEN 0 ELSE Max(P)

\* s[from:] in 1-based positions
Tail1(s, from) == SubSeq(s, from, Len(s))

\* str.replace(old, new): every non-overlapping occurrence, left to right
RECURSIVE Replace(_, _, _)
Replace(s, old, new) ==
    LET p == Find(s, old, 1) IN
    IF p = 0 THEN s
    ELSE SubSeq(s, 1, p - 1) \o new \o Replace(Tail1(s, p + Len(old)), old, new)

\* str.split(sep)
RECURSIVE Split(_, _)
Split(s, sep) ==
    LET p == Find(s, sep, 1) IN
    IF p = 0 THEN <<s>>
    ELSE <<SubSeq(s, 1, p - 1)>> \o Split(Tail1(s, p + Len(sep)), sep)

\* "\n".join(list)
RECURSIVE Join(_, _)
Join(list, sep) ==
    IF Len(list) = 0 THEN ""
    ELSE IF Len(list) = 1 THEN list[1]
    ELSE list[1] \o sep \o Join(Tail(list), sep)

\* ------------------------------------------------------ module constants
template_lib_header ==
    "(kicad_symbol_lib (version 20210201) (generator TousstNicolas/JLC2KiCad_lib)\n"

template_lib_footer == ")\n"

supported_value_types == <<"Resistance", "Capacitance", "Inductance", "Frequency">>

\* kicad_symbol.pinNamesHide, kicad_symbol.pinNumbersHide
pinNamesHide == "(pin_names hide)"
pinNumbersHide == "(pin_numbers hide)"

\* ------------------------------------------------- the outside world
\* Fixed arguments of every call.
footprint_name == "F1"
component_id == "C100001"
caller_datasheet == "ds"
output_dir == "out"
symbol_path == "symbol"

\* What the EasyEDA API answers for each identifier when the request
\* succeeds: result.title, packageDetail...c_para.pre, dataStr.shape,
\* dataStr.head.c_para restricted to the keys the code looks at.
NoPara == [t \in {} |-> ""]

Api ==
    [u1 |-> [title |-> "R+", pre |-> "R?", shape |-> <<"P~1">>,
             c_para |-> [t \in {"Resistance"} |-> "10k"]],
     u2 |-> [title |-> "R", pre |-> "R?", shape |-> <<"P~2", "X~0">>,
             c_para |-> NoPara],
     u3 |-> [title |-> "R.0.1", pre |-> "U?", shape |-> <<"P~3">>,
             c_para |-> NoPara],
     u4 |-> [title |-> "A/1 b", pre |-> "U?", shape |-> <<"P~4~x">>,
             c_para |-> [t \in {"Capacitance", "Frequency"} |->
                            IF t = "Capacitance" THEN "" ELSE "1MHz"]]]

Uuids == {"u1", "u2", "u3", "u4"}

\* requests.codes.ok and the failure status the model uses
StatusOk == 200
StatusNotFound == 404

\* The paths given as jlcparts_db: one that is no file, one that is the
\* database; os.path.isfile tells them apart.
DbPaths == {"", "parts.sqlite"}
isfile(path) == path = "parts.sqlite"

\* The components of the database (PartLibraryDb.getComponent), with the
\* fields load_jlcparts_metadata reads.
PartDb ==
    [C100001 |-> [datasheet |-> "http://d/1",
                  description |-> "",
                  extra_description |-> "res 10k",
                  manufacturer |-> "YAGEO",
                  mfr |-> "RC0603",
                  attributes |-> [t \in {"Resistance"} |-> "10kOhm"]]]

\* ------------------------------------------------------------ handlers
\* symbol_handlers.handlers: the drawing capability per primitive type
\* tag.  A pin handler appends one drawing line built from its first
\* argument; other tags have no handler.
handlers == {"P"}

handler_P(data, buffer) == buffer \o "\n      (pin " \o data[1] \o ")"

\* lines 187-201: the loop over symbol_shape
RECURSIVE render_shape(_, _)
render_shape(symbol_shape, buffer) ==
    IF Len(symbol_shape) = 0 THEN buffer
    ELSE LET args == Split(Head(symbol_shape), "~")
             model == args[1]
         IN render_shape(Tail(symbol_shape),
                         IF model \notin handlers THEN buffer
                         ELSE handler_P(Tail(args), buffer))

\* ----------------------------------------------- load_jlcparts_metadata
\* The mapping returned for component_id: the keys that create_symbol
\* reads (value, datasheet, description, manufacturer, mfr).  A key absent
\* from the dict is absent from the function's domain.
RECURSIVE metadata_value(_, _, _)
metadata_value(component, k, acc) ==
    IF k > Len(supported_value_types) THEN acc
    ELSE LET value_type == supported_value_types[k] IN
         metadata_value(component, k + 1,
             IF value_type \in DOMAIN component.attributes
             THEN <<component.attributes[value_type]>>
             ELSE acc)

load_jlcparts_metadata(db, cid) ==
    IF cid \notin DOMAIN PartDb THEN [k \in {} |-> ""]
    ELSE LET component == PartDb[cid]
             v == metadata_value(component, 1, <<>>)
             keys == {"datasheet", "description", "manufacturer", "mfr"}
                        \cup (IF v = <<>> THEN {} ELSE {"value"})
         IN [k \in keys |->
                CASE k = "datasheet" -> component.datasheet
                  [] k = "description" ->
                        IF component.description = ""
                        THEN component.extra_description
                        ELSE component.description
                  [] k = "manufacturer" -> component.manufacturer
                  [] k = "mfr" -> component.mfr
                  [] k = "value" -> v[1]]

\* dict.get(key, default)
Get(d, key, default) == IF key \in DOMAIN d THEN d[key] ELSE default

\* ------------------------------------------------------- sanitization
\* lines 132-142: the chain of str.replace calls on result.title
component_title_of(title) ==
    Replace(Replace(Replace(Replace(Replace(Replace(Replace(Replace(
        title, " ", "_"), ".", "_"), "/", "{slash}"), "\\", "{backslash}"),
        "<", "{lt}"), ">", "{gt}"), ":", "{colon}"), "\"", "{dblquote}")

\* lines 145-152: the recognized attributes of the header, in the order of
\* supported_value_types
RECURSIVE header_types_values(_, _)
header_types_values(c_para, k) ==
    IF k > Len(supported_value_types) THEN <<>>
    ELSE LET value_type == supported_value_types[k] IN
         (IF value_type \in DOMAIN c_para
          THEN << <<value_type, c_para[value_type]>> >> ELSE <<>>)
         \o header_types_values(c_para, k + 1)

\* lines 169-175: the pairs appended for every sub-part that is rendered
enrichment_types_values(props) ==
    << <<"JLCDescription", Get(props, "description", "")>>,
       <<"Manufacturer", Get(props, "manufacturer", "")>>,
       <<"MFR.Part.#", Get(props, "mfr", "")>> >>

\* ------------------------------------------ get_type_values_properties
property_entry(type_value, id) ==
    "(property \"" \o type_value[1] \o "\" \"" \o type_value[2]
        \o "\" (id " \o ToString(id) \o ") (at 0 0 0)\n"
        \o "      (effects (font (size 1.27 1.27)) hide)\n"
        \o "    )"

\* the list comprehension of lines 260-265
RECURSIVE property_entries(_, _, _)
property_entries(start_index, ctv, index) ==
    IF index >= Len(ctv) THEN <<>>
    ELSE <<property_entry(ctv[index + 1], start_index + index)>>
            \o property_entries(start_index, ctv, index + 1)

\* a synthesizer that leaves out the pairs whose value is empty
RECURSIVE nonempty_pairs(_)
nonempty_pairs(ctv) ==
    IF Len(ctv) = 0 THEN <<>>
    ELSE (IF Head(ctv)[2] = "" THEN <<>> ELSE <<Head(ctv)>>)
            \o nonempty_pairs(Tail(ctv))

get_type_values_properties_skip_empty(start_index, ctv) ==
    Join(property_entries(start_index, nonempty_pairs(ctv), 0), "\n")

get_type_values_properties(start_index, ctv) ==
    Join(property_entries(start_index, ctv, 0), "\n")

\* ------------------------------------------------ the record template
\* lines 205-227
template_lib_component(name, prefix, val, datasheet, ctv, draw) ==
    "  (symbol \"" \o name \o "\" " \o pinNamesHide \o " " \o pinNumbersHide
        \o " (in_bom yes) (on_board yes)\n"
    \o "    (property \"Reference\" \"" \o prefix \o "\" (id 0) (at 0 1.27 0)\n"
    \o "      (effects (font (size 1.27 1.27)))\n"
    \o "    )\n"
    \o "    (property \"Value\" \"" \o val \o "\" (id 1) (at 0 -2.54 0)\n"
    \o "      (effects (font (size 1.27 1.27)))\n"
    \o "    )\n"
    \o "    (property \"Footprint\" \"" \o footprint_name \o "\" (id 2) (at 0 -10.16 0)\n"
    \o "      (effects (font (size 1.27 1.27) italic) hide)\n"
    \o "    )\n"
    \o "    (property \"Datasheet\" \"" \o datasheet \o "\" (id 3) (at -2.286 0.127 0)\n"
    \o "      (effects (font (size 1.27 1.27)) (justify left) hide)\n"
    \o "    )\n"
    \o "    (property \"ki_keywords\" \"" \o component_id \o "\" (id 4) (at 0 0 0)\n"
    \o "      (effects (font (size 1.27 1.27)) hide)\n"
    \o "    )\n"
    \o "    (property \"LCSC\" \"" \o component_id \o "\" (id 5) (at 0 0 0)\n"
    \o "      (effects (font (size 1.27 1.27)) hide)\n"
    \o "    )\n"
    \o "    " \o get_type_values_properties(6, ctv) \o draw \o "\n"
    \o "  )\n"
\* ------------------------------------------------------------- re.sub
\* The pattern of line 288 is  '  \(symbol "' + component_title +
\* '" (\n|.)*?\n  \)'  with the title inserted unescaped.  pattern_head is
\* the part before the lazy group, as the f-string builds it.
pattern_head(component_title) ==
    "  \\(symbol \"" \o component_title \o "\" "

\* the text every match starts with: no title can alter these characters
pattern_literal_start == "  (symbol "

pattern_close == "\n  )"

\* the length of the run of character ch that starts at pos
RECURSIVE run_length(_, _, _)
run_length(s, pos, ch) ==
    IF StartsAt(s, pos, ch) THEN 1 + run_length(s, pos + 1, ch) ELSE 0

\* The pattern head as the regular-expression parser reads it: a sequence
\* of characters ("\(" is the character "("), each one followed by no
\* '+' (once), one '+' (one or more, greedy), two (one or more,
\* possessive) or more than two (re.error: multiple repeat).
RECURSIVE head_atoms(_)
head_atoms(p) ==
    IF Len(p) = 0 THEN <<>>
    ELSE LET escaped == SubSeq(p, 1, 1) = "\\"
             ch == IF escaped THEN SubSeq(p, 2, 2) ELSE SubSeq(p, 1, 1)
             rest == Tail1(p, IF escaped THEN 3 ELSE 2)
             n == run_length(rest, 1, "+")
         IN <<[ch |-> ch,
               rep |-> CASE n = 0 -> "once"
                         [] n = 1 -> "greedy"
                         [] n = 2 -> "possessive"
                         [] OTHER -> "error"]>>
            \o head_atoms(Tail1(rest, n + 1))

\* re.compile accepts the pattern
pattern_compiles(component_title) ==
    \A k \in DOMAIN head_atoms(pattern_head(component_title)) :
        head_atoms(pattern_head(component_title))[k].rep # "error"

\* The end (position of the closing parenthesis) of the match of
\* atoms[k..] followed by the lazy group and the terminator, tried at pos
\* in the order of the backtracking matcher; 0 when there is none.  The
\* lazy (\n|.)*? stops at the first "\n  )" at or after the head's end.
RECURSIVE match_from(_, _, _, _)
RECURSIVE greedy_from(_, _, _, _, _)
match_from(s, pos, atoms, k) ==
    IF k > Len(atoms)
    THEN LET t == Find(s, pattern_close, pos) IN
         IF t = 0 THEN 0 ELSE t + Len(pattern_close) - 1
    ELSE LET run == run_length(s, pos, atoms[k].ch) IN
         CASE atoms[k].rep = "once" ->
                IF run >= 1 THEN match_from(s, pos + 1, atoms, k + 1) ELSE 0
           [] atoms[k].rep = "possessive" ->
                IF run >= 1 THEN match_from(s, pos + run, atoms, k + 1) ELSE 0
           [] atoms[k].rep = "greedy" -> greedy_from(s, pos, atoms, k, run)
           [] OTHER -> 0

\* a greedy repeat takes m characters, then fewer, down to one
greedy_from(s, pos, atoms, k, m) ==
    IF m < 1 THEN 0
    ELSE LET e == match_from(s, pos + m, atoms, k + 1) IN
         IF e # 0 THEN e ELSE greedy_from(s, pos, atoms, k, m - 1)

\* the end of the match that starts at i, 0 if the pattern does not match
\* there
match_end(s, i, component_title) ==
    match_from(s, i, head_atoms(pattern_head(component_title)), 1)

\* re.sub(pattern, repl, string, count=1): the leftmost match is replaced.
\* (A pattern that does not compile makes re.sub raise: see
\* update_library_raises; the string is then left as it is.)
re_sub(component_title, repl, string) ==
    LET starts == {i \in Positions(string, pattern_literal_start, 1) :
                      match_end(string, i, component_title) # 0}
    IN IF ~pattern_compiles(component_title) \/ starts = {} THEN string
       ELSE LET i == Min(starts)
                e == match_end(string, i, component_title)
            IN SubSeq(string, 1, i - 1) \o repl \o Tail1(string, e + 1)

\* ------------------------------------------------------ update_library
\* lib_file.seek(0); lib_file.write(new) with no truncate: what lay beyond
\* the written bytes stays
write_at_start(old, new) == new \o Tail1(old, Len(new) + 1)

\* file_content[: file_content.rfind(")")]; rfind answers -1 when there
\* is no ")" and the slice then drops the last character
before_footer(file_content) ==
    LET p == RFind(file_content, ")") IN
    IF p = 0 THEN SubSeq(file_content, 1, Len(file_content) - 1)
    ELSE SubSeq(file_content, 1, p - 1)

\* line 291
already_in_library(file_content, component_title) ==
    Contains(file_content, "symbol \"" \o component_title \o "\"")

\* re.sub raises re.error at line 302, before the file is written
update_library_raises(file_content, component_title, skip) ==
    /\ already_in_library(file_content, component_title)
    /\ ~skip
    /\ ~pattern_compiles(component_title)

\* an engine that replaces the record whatever skip_existing says
update_library_ignoring_skip(file_content, component_title, record, skip) ==
    IF already_in_library(file_content, component_title)
    THEN re_sub(component_title, record, file_content)
    ELSE write_at_start(file_content,
            before_footer(file_content) \o record \o template_lib_footer)

\* the content of the file after update_library, from the content before
update_library(file_content, component_title, record, skip) ==
    IF already_in_library(file_content, component_title)
    THEN IF skip THEN file_content
         ELSE re_sub(component_title, record, file_content)
    ELSE write_at_start(file_content,
            before_footer(file_content) \o record \o template_lib_footer)
\* -------------------------------------------------------------- state
NoLast == [file |-> "", name |-> "", rec |-> "", skip |-> FALSE,
           before |-> "", repeat |-> FALSE]

NoGtvp == [start_index |-> 0, ctv |-> <<>>, out |-> ""]

Init ==
    /\ files = [f \in {} |-> ""]
    /\ dirs = {}
    /\ pc = "idle"
    /\ symbol_component_uuid = <<>>
    /\ skip_existing = FALSE
    /\ jlcparts_db = ""
    /\ library_name = ""
    /\ datasheet_link = ""
    /\ idx = 1
    /\ ComponentName = ""
    /\ drawing = ""
    /\ component_types_values = <<>>
    /\ symmbol_prefix = ""
    /\ value = ""
    /\ filename = ""
    /\ result = "none"
    /\ fetched = <<>>
    /\ status = 0
    /\ last = NoLast
    /\ calls = 0
    /\ gtvp = NoGtvp

\* ------------------------------------------------------ create_symbol
\* lines 91-113: the call, up to the first iteration of the loop
CreateSymbol(uuids, lib, db, skip, max) ==
    /\ pc = "idle"
    /\ calls < max
    /\ calls' = calls + 1
    /\ symbol_component_uuid' = uuids
    /\ library_name' = lib
    /\ jlcparts_db' = db
    /\ skip_existing' = skip
    /\ datasheet_link' = caller_datasheet
    /\ idx' = 1
    /\ ComponentName' = ""
    /\ drawing' = ""
    /\ component_types_values' = <<>>
    /\ symmbol_prefix' = ""
    /\ value' = ""
    /\ filename' = ""
    /\ result' = "running"
    /\ fetched' = <<>>
    /\ status' = 0
    /\ pc' = IF Len(uuids) = 0 THEN "render" ELSE "fetch"
    /\ UNCHANGED <<files, dirs, last, gtvp>>

\* lines 114-120 and 128-202: one iteration whose request succeeds
FetchOk ==
    /\ pc = "fetch"
    /\ LET component_uuid == symbol_component_uuid[idx]
           data == Api[component_uuid]
           component_title == component_title_of(data.title)
           first == ComponentName = ""
           name == IF first THEN component_title ELSE ComponentName
           title == IF first THEN component_title \o "_0" ELSE component_title
           skipped == /\ Len(symbol_component_uuid) >= 2
                      /\ component_uuid = symbol_component_uuid[1]
           props == IF isfile(jlcparts_db)
                    THEN load_jlcparts_metadata(jlcparts_db, component_id)
                    ELSE [k \in {} |-> ""]
           lib == IF library_name = "" THEN name ELSE library_name
       IN /\ fetched' = Append(fetched, component_uuid)
          /\ status' = StatusOk
          /\ symmbol_prefix' = Replace(data.pre, "?", "")
          /\ ComponentName' = name
          /\ IF skipped
             THEN /\ component_types_values' = header_types_values(data.c_para, 1)
                  /\ UNCHANGED <<value, datasheet_link, library_name,
                                 filename, drawing>>
             ELSE /\ value' = IF Get(props, "value", "") # ""
                              THEN Get(props, "value", "") ELSE name
                  /\ datasheet_link' = Get(props, "datasheet", datasheet_link)
                  /\ component_types_values' =
                        header_types_values(data.c_para, 1)
                            \o enrichment_types_values(props)
                  /\ library_name' = lib
                  /\ filename' = output_dir \o "/" \o symbol_path \o "/"
                                    \o lib \o ".kicad_sym"
                  /\ drawing' = render_shape(data.shape,
                                    drawing \o "\n    (symbol \"" \o title \o "_1\"")
                                  \o "\n    )"
    /\ idx' = idx + 1
    /\ pc' = IF idx + 1 > Len(symbol_component_uuid) THEN "render" ELSE "fetch"
    /\ UNCHANGED <<files, dirs, symbol_component_uuid, skip_existing,
                   jlcparts_db, result, last, calls, gtvp>>

\* an assembler that goes on to the next sub-part after a failed request
FetchErrorContinue ==
    /\ pc = "fetch"
    /\ fetched' = Append(fetched, symbol_component_uuid[idx])
    /\ status' = StatusNotFound
    /\ idx' = idx + 1
    /\ pc' = IF idx + 1 > Len(symbol_component_uuid) THEN "render" ELSE "fetch"
    /\ UNCHANGED <<files, dirs, symbol_component_uuid, skip_existing,
                   jlcparts_db, library_name, datasheet_link, ComponentName,
                   drawing, component_types_values, symmbol_prefix, value,
                   filename, result, last, calls, gtvp>>

\* lines 114-126: one iteration whose request fails
FetchError ==
    /\ pc = "fetch"
    /\ fetched' = Append(fetched, symbol_component_uuid[idx])
    /\ status' = StatusNotFound
    /\ result' = "()"
    /\ pc' = "idle"
    /\ UNCHANGED <<files, dirs, symbol_component_uuid, skip_existing,
                   jlcparts_db, library_name, datasheet_link, idx,
                   ComponentName, drawing, component_types_values,
                   symmbol_prefix, value, filename, last, calls, gtvp>>

\* lines 205-254: the record is rendered and merged into the library.
\* When every iteration was skipped, value is unbound and line 210 raises;
\* when the pattern does not compile, line 302 raises.
WriteLibrary ==
    /\ pc = "render"
    /\ pc' = "idle"
    /\ IF filename = ""
       THEN /\ result' = "exception"
            /\ UNCHANGED <<files, dirs, last>>
       ELSE LET record == template_lib_component(ComponentName, symmbol_prefix,
                              value, datasheet_link, component_types_values,
                              drawing)
                file_content == IF filename \in DOMAIN files THEN files[filename]
                                ELSE template_lib_header \o template_lib_footer
                new_content == update_library(file_content, ComponentName,
                                              record, skip_existing)
            IN /\ dirs' = dirs \cup {output_dir \o "/" \o symbol_path}
               /\ files' = [f \in DOMAIN files \cup {filename} |->
                               IF f = filename THEN new_content ELSE files[f]]
               /\ last' = [file |-> filename, name |-> ComponentName,
                           rec |-> record, skip |-> skip_existing,
                           before |-> file_content,
                           repeat |-> /\ last.file = filename
                                      /\ last.name = ComponentName
                                      /\ last.rec = record
                                      /\ ~last.skip
                                      /\ ~skip_existing]
               /\ result' = IF update_library_raises(file_content,
                                  ComponentName, skip_existing)
                             THEN "exception" ELSE "None"
    /\ UNCHANGED <<symbol_component_uuid, skip_existing, jlcparts_db,
                   library_name, datasheet_link, idx, ComponentName, drawing,
                   component_types_values, symmbol_prefix, value, filename,
                   fetched, status, calls, gtvp>>

\* The calls of the merge scenarios: one sub-part per component, one
\* shared library.
MergeLists == {<<"u1">>, <<"u2">>, <<"u3">>}
MergeLibraries == {"L"}

\* The calls of the assembly scenarios: single and multi-unit components,
\* with and without an explicit library name.
AsmLists == {<<"u3">>, <<"u4">>, <<"u2", "u3">>, <<"u4", "u1", "u3">>,
             <<"u2", "u2">>}
AsmLibraries == {"", "L"}

Call(lists, libraries, max) ==
    \E uuids \in lists, lib \in libraries, db \in DbPaths, skip \in BOOLEAN :
        CreateSymbol(uuids, lib, db, skip, max)

Next ==
    \/ Call(MergeLists, MergeLibraries, MaxCalls)
    \/ FetchOk
    \/ FetchError
    \/ WriteLibrary

Spec == Init /\ [][Next]_vars

NextAsm ==
    \/ Call(AsmLists, AsmLibraries, MaxCallsAsm)
    \/ FetchOk
    \/ FetchError
    \/ WriteLibrary

SpecAsm == Init /\ [][NextAsm]_vars

\* ------------------------------ get_type_values_properties on its own
PairKeys == {"Resistance", "Manufacturer"}
PairValues == {"", "10k"}
Bases == {0, 6}

RECURSIVE SeqsUpTo(_, _)
SeqsUpTo(S, n) ==
    IF n = 0 THEN {<<>>}
    ELSE LET shorter == SeqsUpTo(S, n - 1) IN
         shorter \cup {Append(q, x) : q \in shorter, x \in S}

Synthesize ==
    /\ gtvp = NoGtvp
    /\ \E start_index \in Bases,
          ctv \in SeqsUpTo(PairKeys \X PairValues, MaxPairs) :
            gtvp' = [start_index |-> start_index, ctv |-> ctv,
                     out |-> get_type_values_properties(start_index, ctv)]
    /\ UNCHANGED <<files, dirs, pc, symbol_component_uuid, skip_existing,
                   jlcparts_db, library_name, datasheet_link, idx,
                   ComponentName, drawing, component_types_values,
                   symmbol_prefix, value, filename, result, fetched, status,
                   last, calls>>

SpecProps == Init /\ [][Synthesize]_vars
\* ============================================================ claims
\* The content of the library after the last update_library call.
AfterMerge == files[last.file]

\* An update_library call has happened.
Merged == last.rec # ""

\* The opening of the record named n, as create_symbol renders it.
Opening(n) == "  (symbol \"" \o n \o "\" "

\* The opening token of a record named n.
OpeningToken(n) == "(symbol \"" \o n \o "\""

\* The canonical names the components of the API can produce.
Names == {component_title_of(Api[u].title) : u \in Uuids}

EndsWith(s, suffix) == StartsAt(s, Len(s) - Len(suffix) + 1, suffix)

Count(s, sub) == Cardinality(Positions(s, sub, 1))

\* The text of the record named n in content: from its opening through
\* its terminator line; "" when there is none.
RecordOf(content, n) ==
    LET i == Find(content, Opening(n), 1) IN
    IF i = 0 THEN ""
    ELSE SubSeq(content, i, Find(content, "\n  )\n", i) + 4)

\* C1: merging the same record under the same name twice with
\* skip-existing = false leaves the content after the second merge equal
\* to the content after the first.
C1_Idempotence == last.repeat => AfterMerge = last.before

\* C2: a merge of record A leaves the text of every other record B of the
\* container byte-identical.
C2_Isolation ==
    Merged => \A b \in Names \ {last.name} :
                 RecordOf(last.before, b) # ""
                    => Contains(AfterMerge, RecordOf(last.before, b))

\* C3: a container holds at most one record per canonical name.
C3_Uniqueness ==
    \A f \in DOMAIN files : \A n \in Names : Count(files[f], Opening(n)) <= 1

\* C4: when no record opening for the name appears in the container, the
\* result is everything that preceded the trailing sentinel, then the new
\* record, then the sentinel; header + sentinel becomes header + record +
\* sentinel; the result has exactly one trailing sentinel.
C4_NewRecordInsertion ==
    (Merged /\ ~Contains(last.before, OpeningToken(last.name))) =>
        /\ EndsWith(last.before, template_lib_footer)
        /\ AfterMerge =
              SubSeq(last.before, 1, Len(last.before) - Len(template_lib_footer))
                 \o last.rec \o template_lib_footer
        /\ (last.before = template_lib_header \o template_lib_footer
              => AfterMerge = template_lib_header \o last.rec \o template_lib_footer)
        /\ Count(AfterMerge, "\n" \o template_lib_footer) = 1

C4_Witness ==
    /\ Merged
    /\ ~Contains(last.before, OpeningToken(last.name))
    /\ last.before # template_lib_header \o template_lib_footer
    /\ Contains(AfterMerge, last.rec)

\* C5: with skip-existing = true and a record opening for the name in the
\* container, the content after the call is the content before it.
C5_SkipExisting ==
    (Merged /\ last.skip /\ Contains(last.before, OpeningToken(last.name)))
        => AfterMerge = last.before

C5_Witness ==
    /\ Merged
    /\ last.skip
    /\ Contains(last.before, Opening(last.name))
    /\ ~Contains(last.before, last.rec)
    /\ AfterMerge = last.before

\* C9: when detection succeeds and skip-existing is false, exactly the span
\* of the existing record of that name, from its opening token through its
\* terminator, is replaced by the new record text, which is then present.
C9_ReplaceInPlace ==
    (Merged /\ ~last.skip /\ already_in_library(last.before, last.name)) =>
        /\ Contains(AfterMerge, last.rec)
        /\ \E i \in Positions(last.before, Opening(last.name), 1) :
              LET e == Find(last.before, "\n  )", i) + 3 IN
              \E stop \in {e, e + 1} :
                 AfterMerge = SubSeq(last.before, 1, i - 1) \o last.rec
                                 \o Tail1(last.before, stop + 1)
\* s is a prefix of t
IsPrefix(s, t) == Len(s) <= Len(t) /\ SubSeq(t, 1, Len(s)) = s

\* C6: a request that fails, for the first or a later sub-part, makes
\* create_symbol stop with an empty result; no file or directory is created
\* or modified before the loop has ended; every identifier is requested at
\* most once, in list order.
C6_FetchFailureAborts ==
    [][/\ (pc # "render" => files' = files /\ dirs' = dirs)
       /\ ((pc = "fetch" /\ status' # StatusOk)
             => pc' = "idle" /\ result' = "()"
                   /\ Len(fetched') = Len(fetched) + 1)
       /\ IsPrefix(fetched', symbol_component_uuid')]_vars

C6_Witness ==
    /\ pc = "idle"
    /\ status = StatusNotFound
    /\ result = "()"
    /\ Len(fetched) >= 2
    /\ DOMAIN files # {}

\* The end-to-end scenario of C7: a call for a single sub-part has
\* returned, no enrichment database was at the path and the fetched header
\* has no recognized attribute.
C7_Scenario ==
    /\ pc = "idle"
    /\ result = "None"
    /\ Len(symbol_component_uuid) = 1
    /\ ~isfile(jlcparts_db)
    /\ DOMAIN Api[symbol_component_uuid[1]].c_para = {}

\* The container has gained exactly one record, named after the sanitized
\* title, with the six fixed properties.
C7_OneRecordWithFixedProperties ==
    LET name == component_title_of(Api[symbol_component_uuid[1]].title)
        record == RecordOf(AfterMerge, name)
    IN /\ Count(AfterMerge, "\n  (symbol \"")
             = Count(last.before, "\n  (symbol \"") + 1
       /\ Count(AfterMerge, Opening(name)) = 1
       /\ \A k \in 0 .. 5 : Count(record, "(id " \o ToString(k) \o ")") = 1
       /\ Contains(record, "(property \"Reference\" \"" \o symmbol_prefix \o "\" (id 0)")
       /\ Contains(record, "(property \"Value\" \"" \o name \o "\" (id 1)")
       /\ Contains(record, "(property \"Footprint\" \"" \o footprint_name \o "\" (id 2)")
       /\ Contains(record, "(property \"Datasheet\" \"" \o caller_datasheet \o "\" (id 3)")
       /\ Contains(record, "(property \"ki_keywords\" \"" \o component_id \o "\" (id 4)")
       /\ Contains(record, "(property \"LCSC\" \"" \o component_id \o "\" (id 5)")

\* C7: in the scenario the container gains exactly one record, named
\* after the sanitized title, with the six fixed properties and no
\* property with identifier 6 or above.
C7_NoDynamicProperties ==
    C7_Scenario =>
        /\ C7_OneRecordWithFixedProperties
        /\ Count(RecordOf(AfterMerge, last.name), "(property ") = 6
        /\ ~Contains(RecordOf(AfterMerge, last.name), "(id 6)")

\* The position of the n-th occurrence of sub in s, 0 when there is none.
NthPosition(s, sub, n) ==
    LET P == Positions(s, sub, 1) IN
    IF Cardinality(P) < n THEN 0
    ELSE CHOOSE p \in P : Cardinality({q \in P : q <= p}) = n

\* C8: get_type_values_properties emits one property entry per pair, in
\* input order, the entry at position i carrying identifier base + i; a
\* pair with an empty value is emitted and takes its identifier.
C8_PropertyIdentifiers ==
    /\ Count(gtvp.out, "(property ") = Len(gtvp.ctv)
    /\ \A i \in 1 .. Len(gtvp.ctv) :
          StartsAt(gtvp.out, NthPosition(gtvp.out, "(property ", i),
                   "(property \"" \o gtvp.ctv[i][1] \o "\" \"" \o gtvp.ctv[i][2]
                      \o "\" (id " \o ToString(gtvp.start_index + i - 1) \o ") ")

C8_Witness ==
    /\ Len(gtvp.ctv) = 3
    /\ gtvp.start_index = 6
    /\ gtvp.ctv[2][2] = ""
    /\ gtvp.ctv[3][2] # ""
    /\ Contains(gtvp.out, "\" \"\" (id 7)")
    /\ Contains(gtvp.out, "(id 8)")

\* the fragments occur in s one after the other, from position from on
RECURSIVE OccurInOrder(_, _, _)
OccurInOrder(fragments, s, from) ==
    IF Len(fragments) = 0 THEN TRUE
    ELSE LET p == Find(s, Head(fragments), from) IN
         /\ p # 0
         /\ OccurInOrder(Tail(fragments), s, p + Len(Head(fragments)))

\* C10: when every request has succeeded, the aggregate drawing body holds
\* the rendered fragment of every sub-part, the first included, in list
\* order, and the canonical name is the sanitized title of the first.
C10_EveryUnitDrawn ==
    pc = "render" =>
        /\ ComponentName = component_title_of(Api[symbol_component_uuid[1]].title)
        /\ OccurInOrder([i \in 1 .. Len(symbol_component_uuid) |->
                            render_shape(Api[symbol_component_uuid[i]].shape, "")],
                        drawing, 1)
====
